---- MODULE Spec2Model ----
(***************************************************************************)
(* A model of skygp: the simulation reader (data_manager.py), the isotope  *)
(* mass table (isotope_mass.py), the collision system                      *)
(* (collision_system.py) and the Gaussian emulator (gaussian_emulator.py). *)
(*                                                                         *)
(* Independent parts share this module; each has its own specification and *)
(* leaves the variables of the other parts untouched:                      *)
(*   SpecAgg    SimulationReader.get_data                                  *)
(*   SpecSplit  DataManager.auto_column_splitter                           *)
(*   SpecIso    DataManager, get_A_Z, get_mass                             *)
(*   SpecConc   read_in_data running beside get_A_Z and get_mass           *)
(*   SpecCs     CollisionSystem                                            *)
(*   SpecGe     GaussianEmulator                                           *)
(***************************************************************************)
EXTENDS Integers, Sequences, FiniteSets, TLC

(***************************************************************************)
(* Bounds of the model.                                                    *)
(***************************************************************************)
MaxCodes == 3
MaxEnergy == 2
MaxRows == 2
MaxTemplateLen == 2
MaxLines == 2
MaxLineLen == 3
MaxNotationLen == 4

VARIABLES
    \* ---- SimulationReader.get_data ----
    files,             \* the run files on disk: system -> code -> rows
    param_file,        \* the parameter index on disk: the set of codes it lists
    subdir_fmt_numer,  \* argument: path template of the numerator system
    subdir_fmt_denom,  \* argument: path template of the denominator system
    param_codes,       \* argument: the code list
    energy_range,      \* argument: <<lo, hi>>
    agg_pc,            \* position inside get_data
    opened,            \* the files opened so far, in order
    x_train,           \* local x_train
    y_train,           \* local y_train
    header_train,      \* local header_train
    df_sr,             \* local df_sr of the current iteration
    code_i,            \* position of the for loop in param_codes
    agg_result,        \* what get_data raised or returned
    \* ---- DataManager.auto_column_splitter ----
    content,           \* argument: the lines of the table
    split_pc,          \* position inside auto_column_splitter
    split_pos,         \* local split_pos
    splitted_content,  \* what auto_column_splitter raised or returned
    \* ---- DataManager, get_A_Z, get_mass ----
    local_file,        \* the file at AME_LOCAL_PATH: Absent, or its lines
    iso_pc,            \* whether the module-level data_manager is bound
    df,                \* data_manager.df
    units,             \* data_manager.units
    Z_to_symb,         \* data_manager.Z_to_symb
    symb_to_Z,         \* data_manager.symb_to_Z
    iso_call,          \* the last call made: operation, arguments, outcome
    \* ---- read_in_data beside a reader, statement by statement ----
    rebuild,           \* the thread in read_in_data: position and locals
    reader,            \* the thread in get_A_Z or get_mass: position and locals
    \* ---- CollisionSystem ----
    coll_sys,          \* the object bound by the last successful construction
    cs_call,           \* the last call made: operation, arguments, outcome
    \* ---- GaussianEmulator ----
    emulator,          \* the object: x_train, y_train and its regressor
    ge_call            \* the last call made: operation, arguments, outcome

aggVars == <<files, param_file, subdir_fmt_numer, subdir_fmt_denom, param_codes,
             energy_range, agg_pc, opened, x_train, y_train, header_train,
             df_sr, code_i, agg_result>>

splitVars == <<content, split_pc, split_pos, splitted_content>>

isoVars == <<local_file, iso_pc, df, units, Z_to_symb, symb_to_Z, iso_call>>

concVars == <<rebuild, reader>>

csVars == <<coll_sys, cs_call>>

geVars == <<emulator, ge_call>>

vars == <<aggVars, splitVars, isoVars, concVars, csVars, geVars>>

(***************************************************************************)
(* Generic helpers.                                                        *)
(***************************************************************************)
SeqsUpTo(S, n) == UNION {[1..k -> S] : k \in 0..n}

IsInjective(s) == \A i, j \in DOMAIN s : s[i] = s[j] => i = j


\* Python's None.
None == [tag |-> "None"]

(***************************************************************************)
(* SimulationReader.get_data                                               *)
(***************************************************************************)
Codes == 1..MaxCodes
Energies == 1..MaxEnergy
Systems == {"numer", "denom"}

\* A path template is a sequence of tokens: literal text or the placeholder.
Placeholder == "%03d"
Tokens == {"lit", Placeholder}
Templates == SeqsUpTo(Tokens, MaxTemplateLen)

\* str.count('%'): every placeholder token holds one '%', literal text none.
CountPercent(string) == Cardinality({i \in DOMAIN string : string[i] = Placeholder})
\* str.count('%03d')
CountPlaceholder(string) == Cardinality({i \in DOMAIN string : string[i] = Placeholder})

\* Line 124: the template passes when both counts are non-zero.
SubdirFmtOk(string) == CountPercent(string) # 0 /\ CountPlaceholder(string) # 0

\* subdir_fmt % code: one argument needs exactly one conversion.
FormatOk(string) == CountPlaceholder(string) = 1

\* The single_ratio column of a run file, as the simulation wrote it.
SingleRatioOf(sys, ene) == IF sys = "numer" THEN 2 * ene ELSE ene

\* A run file: rows of (ene_cm, single_ratio), no energy twice.
FileOf(sys, enes) ==
    [k \in DOMAIN enes |-> [ene_cm |-> enes[k], single_ratio |-> SingleRatioOf(sys, enes[k])]]
EnergySeqs == {s \in SeqsUpTo(Energies, MaxRows) : IsInjective(s)}

\* pd.read_csv: the frame keeps each row under its position in the file
\* (RangeIndex 0..n-1).
ReadCsv(file) ==
    [k \in DOMAIN file |-> [idx |-> k - 1, ene_cm |-> file[k].ene_cm,
                            single_ratio |-> file[k].single_ratio]]

\* Lines 142-143: boolean-mask selection keeps the index labels.
FilterRange(frame, range) ==
    LET InRange(r) == r.ene_cm >= range[1] /\ r.ene_cm <= range[2]
    IN SelectSeq(frame, InRange)

EneCm(frame) == [k \in DOMAIN frame |-> frame[k].ene_cm]

\* A float cell is kept as a pair <<a, b>> standing for a / b; NaN is 0 / 0.
Quot(a, b) == <<a, b>>
NaN == Quot(0, 0)

\* Lines 160-162: Series division aligns the two operands on their index
\* labels; a label the denominator lacks gives NaN.
DoubleRatio(numer, denom) ==
    [k \in DOMAIN numer |->
        IF \E j \in DOMAIN denom : denom[j].idx = numer[k].idx
        THEN LET j == CHOOSE j \in DOMAIN denom : denom[j].idx = numer[k].idx
             IN Quot(numer[k].single_ratio, denom[j].single_ratio)
        ELSE NaN]

\* One row of the parameter index.
ParamRow(code) == [code |-> code, param |-> Quot(10 * code, 1)]

\* Line 169: DataFrame.reindex gives a row of NaN to a label the index lacks.
Reindex(present, codes) ==
    [k \in DOMAIN codes |->
        IF codes[k] \in present THEN ParamRow(codes[k]) ELSE [code |-> codes[k], param |-> NaN]]

\* Line 171: DataFrame(y_train, columns=header_train) pads a short row with NaN.
PadRow(row, n) == [k \in 1..n |-> IF k \in DOMAIN row THEN row[k] ELSE NaN]

AggIdle ==
    /\ agg_pc = "idle"
    /\ files = [s \in Systems |-> [c \in Codes |-> <<>>]]
    /\ param_file = {}
    /\ subdir_fmt_numer = <<>>
    /\ subdir_fmt_denom = <<>>
    /\ param_codes = <<>>
    /\ energy_range = <<1, 1>>
    /\ opened = <<>>
    /\ x_train = None
    /\ y_train = <<>>
    /\ header_train = <<>>
    /\ df_sr = None
    /\ code_i = 1
    /\ agg_result = None

AggLocalsInit ==
    /\ agg_pc = "check_subdir_fmt"
    /\ opened = <<>>
    /\ x_train = None
    /\ y_train = <<>>
    /\ header_train = <<>>
    /\ df_sr = None
    /\ code_i = 1
    /\ agg_result = None

NumerTemplate == <<"lit", Placeholder>>
DenomTemplate == <<Placeholder, "lit">>

\* The run files vary; the call is the tutorial's: one placeholder in each
\* template, the codes 1..n in order, every code listed in the index.
InitAggFiles ==
    /\ subdir_fmt_numer = NumerTemplate
    /\ subdir_fmt_denom = DenomTemplate
    /\ \E n \in 0..MaxCodes :
        /\ param_codes = [k \in 1..n |-> k]
        /\ files \in {f \in [Systems -> [Codes -> {FileOf("numer", e) : e \in EnergySeqs}
                                            \cup {FileOf("denom", e) : e \in EnergySeqs}]] :
                        \A s \in Systems, c \in Codes :
                            /\ \E e \in EnergySeqs : f[s][c] = FileOf(s, e)
                            /\ c > n => f[s][c] = <<>>}
    /\ param_file = Codes
    /\ energy_range \in {r \in Energies \X Energies : r[1] <= r[2]}
    /\ AggLocalsInit

\* The arguments of the call vary; every run file holds the full grid.
InitAggCall ==
    /\ subdir_fmt_numer \in Templates
    /\ subdir_fmt_denom \in Templates
    /\ param_codes \in {s \in SeqsUpTo(Codes, MaxCodes) : IsInjective(s)}
    /\ param_file \in SUBSET Codes
    /\ files = [s \in Systems |-> [c \in Codes |-> FileOf(s, [k \in 1..MaxEnergy |-> k])]]
    /\ energy_range = <<1, MaxEnergy>>
    /\ AggLocalsInit

InitAggArgs == InitAggFiles \/ InitAggCall

\* Lines 123-125.
CheckSubdirFmt ==
    /\ agg_pc = "check_subdir_fmt"
    /\ IF ~SubdirFmtOk(subdir_fmt_numer)
       THEN /\ agg_pc' = "raised"
            /\ agg_result' = [kind |-> "ValueError", what |-> "placeholder",
                              string |-> subdir_fmt_numer]
       ELSE IF ~SubdirFmtOk(subdir_fmt_denom)
       THEN /\ agg_pc' = "raised"
            /\ agg_result' = [kind |-> "ValueError", what |-> "placeholder",
                              string |-> subdir_fmt_denom]
       ELSE /\ agg_pc' = "read_x_train"
            /\ UNCHANGED agg_result
    /\ UNCHANGED <<files, param_file, subdir_fmt_numer, subdir_fmt_denom, param_codes,
                   energy_range, opened, x_train, y_train, header_train, df_sr, code_i>>
    /\ UNCHANGED <<splitVars, isoVars, concVars, csVars, geVars>>

\* Lines 127-133.
ReadXTrain ==
    /\ agg_pc = "read_x_train"
    /\ opened' = Append(opened, <<"param">>)
    /\ x_train' = param_file
    /\ y_train' = <<>>
    /\ header_train' = <<>>
    /\ code_i' = 1
    /\ agg_pc' = "for_code"
    /\ UNCHANGED <<files, param_file, subdir_fmt_numer, subdir_fmt_denom, param_codes,
                   energy_range, df_sr, agg_result>>
    /\ UNCHANGED <<splitVars, isoVars, concVars, csVars, geVars>>

\* Lines 153-157: the grid check of one iteration; TRUE when it raises.
\* The message of line 157 formats the name skyrme, which get_data never
\* binds: evaluating it raises NameError before ValueError is built.
GridMismatch(header, ene_cm, i) == header # <<>> /\ header # ene_cm

\* Line 149.
PairMismatch(numer, denom) == EneCm(numer) # EneCm(denom)

\* Lines 134-165: one iteration of the loop over param_codes.
ReadYTrainCode ==
    /\ agg_pc = "for_code"
    /\ code_i <= Len(param_codes)
    /\ LET code == param_codes[code_i]
           numer == FilterRange(ReadCsv(files["numer"][code]), energy_range)
           denom == FilterRange(ReadCsv(files["denom"][code]), energy_range)
           ene_cm == EneCm(numer)
       IN IF ~FormatOk(subdir_fmt_numer) \/ ~FormatOk(subdir_fmt_denom)
          THEN /\ agg_pc' = "raised"
               /\ agg_result' = [kind |-> "TypeError", what |-> "format", code |-> code]
               /\ UNCHANGED <<opened, df_sr, header_train, y_train, code_i>>
          ELSE /\ opened' = opened \o <<<<"numer", code>>, <<"denom", code>>>>
               /\ df_sr' = [numer |-> numer, denom |-> denom]
               /\ IF PairMismatch(numer, denom)
                  THEN /\ agg_pc' = "raised"
                       /\ agg_result' = [kind |-> "ValueError", what |-> "inconsistent ene_cm",
                                         code |-> None]
                       /\ UNCHANGED <<header_train, y_train, code_i>>
                  ELSE IF GridMismatch(header_train, ene_cm, code_i)
                  THEN /\ agg_pc' = "raised"
                       /\ agg_result' = [kind |-> "NameError", what |-> "skyrme",
                                         code |-> None]
                       /\ UNCHANGED <<header_train, y_train, code_i>>
                  ELSE /\ header_train' = IF header_train = <<>> THEN ene_cm ELSE header_train
                       /\ y_train' = Append(y_train, DoubleRatio(numer, denom))
                       /\ code_i' = code_i + 1
                       /\ UNCHANGED <<agg_pc, agg_result>>
    /\ UNCHANGED <<files, param_file, subdir_fmt_numer, subdir_fmt_denom, param_codes,
                   energy_range, x_train>>
    /\ UNCHANGED <<splitVars, isoVars, concVars, csVars, geVars>>

\* Lines 167-175.
FinalizeFormats ==
    /\ agg_pc = "for_code"
    /\ code_i > Len(param_codes)
    /\ x_train' = Reindex(x_train, param_codes)
    /\ y_train' = [k \in DOMAIN y_train |->
                     [code |-> param_codes[k],
                      values |-> PadRow(y_train[k], Len(header_train))]]
    /\ agg_pc' = "returned"
    /\ agg_result' = [kind |-> "return"]
    /\ UNCHANGED <<files, param_file, subdir_fmt_numer, subdir_fmt_denom, param_codes,
                   energy_range, opened, header_train, df_sr, code_i>>
    /\ UNCHANGED <<splitVars, isoVars, concVars, csVars, geVars>>

NextAgg == CheckSubdirFmt \/ ReadXTrain \/ ReadYTrainCode \/ FinalizeFormats

(***************************************************************************)
(* DataManager.auto_column_splitter                                        *)
(*                                                                         *)
(* A line is a sequence of characters.  Python's positions start at 0, the *)
(* positions of a TLA+ sequence at 1: character c of a line is line[c + 1].*)
(***************************************************************************)
Space == " "
Newline == "\n"
BodyChars == {Space, "a"}

\* The lines of a text table: a body without newline, then perhaps one.
Lines ==
    LET bodies == SeqsUpTo(BodyChars, MaxLineLen)
    IN bodies \cup {Append(b, Newline) : b \in bodies}

\* line[c]
CharAt(line, c) == line[c + 1]

Min(S) == CHOOSE x \in S : \A y \in S : x <= y

\* Line 203.
MinLineLength(lines) == Min({Len(lines[i]) : i \in DOMAIN lines})

\* Lines 207-210: the column c is a space in every line.
IsAllSpace(lines, c) == \A i \in DOMAIN lines : CharAt(lines[i], c) = Space

\* Every column splits.
IsColSplitterAlways(lines, c) == TRUE
\* Lines 206-212: no line has a token running through c - 1 and c.
IsColSplitter(lines, c) ==
    \A i \in DOMAIN lines :
        ~(CharAt(lines[i], c) # Space /\ CharAt(lines[i], c - 1) # Space)

\* Lines 204-216: the offsets recorded, in ascending order, from c up.
RECURSIVE SplitPosFrom(_, _)
SplitPosFrom(lines, c) ==
    IF c >= MinLineLength(lines) THEN <<>>
    ELSE IF IsColSplitter(lines, c) /\ ~IsAllSpace(lines, c)
         THEN <<c>> \o SplitPosFrom(lines, c + 1)
         ELSE SplitPosFrom(lines, c + 1)

\* str.strip('\n'): newlines are dropped from both ends.
RECURSIVE Strip(_)
Strip(line) ==
    IF line = <<>> THEN line
    ELSE IF Head(line) = Newline THEN Strip(Tail(line))
    ELSE IF line[Len(line)] = Newline THEN Strip(SubSeq(line, 1, Len(line) - 1))
    ELSE line

\* line[c0:c1] and line[c0:]: a slice stops at the end of the line.
Slice(line, c0, c1) == SubSeq(line, c0 + 1, IF c1 < Len(line) THEN c1 ELSE Len(line))
SliceFrom(line, c0) == SubSeq(line, c0 + 1, Len(line))

\* Lines 221-224 alone: the fields between boundaries, without line 225.
SplitLineWithoutLastField(line, pos) ==
    LET stripped == Strip(line)
    IN [k \in 1..(Len(pos) - 1) |-> Slice(stripped, pos[k], pos[k + 1])]
\* Lines 221-225 for one line; pos is split_pos with its leading 0 and
\* holds at least one boundary.
SplitLine(line, pos) ==
    LET stripped == Strip(line)
    IN [k \in 1..Len(pos) |->
          IF k < Len(pos) THEN Slice(stripped, pos[k], pos[k + 1])
          ELSE SliceFrom(stripped, pos[Len(pos)])]

SplitIdle ==
    /\ content = <<>>
    /\ split_pc = "idle"
    /\ split_pos = <<>>
    /\ splitted_content = None

InitSplitArgs ==
    /\ content \in SeqsUpTo(Lines, MaxLines)
    /\ split_pc = "call"
    /\ split_pos = <<>>
    /\ splitted_content = None

\* Lines 203-228.  min() of no line raises ValueError; with no boundary
\* recorded the loop of line 223 binds no c1, and line 225 reads it.
AutoColumnSplitter ==
    /\ split_pc = "call"
    /\ IF content = <<>>
       THEN /\ split_pc' = "raised"
            /\ splitted_content' = [kind |-> "ValueError", what |-> "min() arg is an empty sequence"]
            /\ UNCHANGED split_pos
       ELSE LET found == SplitPosFrom(content, 1)
            IN /\ split_pos' = <<0>> \o found
               /\ IF found = <<>>
                  THEN /\ split_pc' = "raised"
                       /\ splitted_content' = [kind |-> "UnboundLocalError", what |-> "c1"]
                  ELSE /\ split_pc' = "returned"
                       /\ splitted_content' =
                            [kind |-> "return",
                             rows |-> [i \in DOMAIN content |-> SplitLine(content[i], <<0>> \o found)]]
    /\ UNCHANGED content
    /\ UNCHANGED <<aggVars, isoVars, concVars, csVars, geVars>>

NextSplit == AutoColumnSplitter

(***************************************************************************)
(* DataManager, get_A_Z, get_mass                                          *)
(*                                                                         *)
(* A string is a sequence of characters.  A line of the mass table is      *)
(* given by its first character and by the fields that                     *)
(* auto_column_splitter and the column selection of lines 142-144 cut out  *)
(* of it; a line of the header or legend has no such fields.               *)
(***************************************************************************)
\* The file at AME_LOCAL_PATH: absent, or there with its lines.
Absent == [exists |-> FALSE, lines |-> <<>>]
File(lines) == [exists |-> TRUE, lines |-> lines]

\* A dict and a DataFrame, as opposed to None.
Dict(map) == [tag |-> "dict", map |-> map]
DataFrame(rows) == [tag |-> "DataFrame", rows |-> rows]

Upper == {"C", "A"}
Lower == {"c", "a"}
Digits == {"4", "8"}
Alpha == Upper \cup Lower
Chars == Alpha \cup Digits

ToUpper(ch) == CASE ch = "c" -> "C" [] ch = "a" -> "A" [] OTHER -> ch
ToLower(ch) == CASE ch = "C" -> "c" [] ch = "A" -> "a" [] OTHER -> ch
DigitValue(ch) == CASE ch = "4" -> 4 [] ch = "8" -> 8 [] OTHER -> 0

\* A numeric field as written: sign, digits (keV), the '#' of an estimate.
Num(neg, keV, hash) == [neg |-> neg, keV |-> keV, hash |-> hash]

DataLine(first, Z, A, symb, mass_excess, mass_excess_err) ==
    [first |-> first, data |-> TRUE, Z |-> Z, A |-> A, symb |-> symb,
     mass_excess |-> mass_excess, mass_excess_err |-> mass_excess_err]
TextLine(first) ==
    [first |-> first, data |-> FALSE, Z |-> 0, A |-> 0, symb |-> <<>>,
     mass_excess |-> Num(FALSE, 0, FALSE), mass_excess_err |-> Num(FALSE, 0, FALSE)]

\* mass16.txt, cut down to a header and six nuclides.
Mass16 ==
    << TextLine("1"), TextLine("0"), TextLine("0"),
       DataLine("0", 6, 8, <<"C">>, Num(FALSE, 35064, FALSE), Num(FALSE, 18, FALSE)),
       DataLine("0", 20, 48, <<"C", "a">>, Num(TRUE, 44224, FALSE), Num(FALSE, 0, FALSE)),
       DataLine("0", 113, 278, <<"E", "d">>, Num(FALSE, 170850, TRUE), Num(FALSE, 375, TRUE)),
       DataLine("0", 115, 287, <<"E", "f">>, Num(FALSE, 177360, TRUE), Num(FALSE, 467, TRUE)),
       DataLine("0", 117, 291, <<"E", "h">>, Num(FALSE, 191920, TRUE), Num(FALSE, 596, TRUE)),
       DataLine("0", 118, 293, <<"E", "i">>, Num(FALSE, 198800, TRUE), Num(FALSE, 709, TRUE)) >>

\* What the server may send.
RemoteTables == {Mass16}

\* Other tables a caller may hand to read_in_data(filepath): one with two
\* rows of one (A, Z), one that gives two charge numbers one symbol, and one
\* that has records of Z = 113 but none of 115, 117, 118.
Mass16Duplicate ==
    Append(Mass16, DataLine("0", 6, 8, <<"C">>, Num(FALSE, 35000, FALSE), Num(FALSE, 20, FALSE)))
Mass16SharedSymbol ==
    Append(Mass16, DataLine("0", 7, 8, <<"C">>, Num(FALSE, 40000, FALSE), Num(FALSE, 30, FALSE)))
Mass16Only113 == SubSeq(Mass16, 1, 6)

\* A table whose legend lines read like data rows (the third line that
\* starts with '0' is the first row of Mass16), and a file with one line
\* starting with '0' only.
Mass16DataInHeader ==
    << DataLine("1", 1, 1, <<"A">>, Num(FALSE, 7288, FALSE), Num(FALSE, 0, FALSE)),
       DataLine("0", 1, 2, <<"A">>, Num(FALSE, 13135, FALSE), Num(FALSE, 0, FALSE)),
       DataLine("0", 1, 3, <<"A">>, Num(FALSE, 14949, FALSE), Num(FALSE, 0, FALSE)) >>
    \o SubSeq(Mass16, 4, Len(Mass16))
Tables == {Mass16, Mass16Duplicate, Mass16SharedSymbol, Mass16Only113,
           Mass16DataInHeader, <<TextLine("1"), Mass16[4]>>}

\* Lines 124-133: the position (from 1) at which the table is cut: the
\* third line starting with the start token, else the last line.
StartToken == "0"
StartTokenCount(lines, n) == Cardinality({i \in 1..n : lines[i].first = StartToken})
\* The table starts at the first line that reads as a row.
LineIFirstRow(lines) ==
    IF \E i \in DOMAIN lines : lines[i].data
    THEN Min({i \in DOMAIN lines : lines[i].data})
    ELSE Len(lines)
LineI(lines) ==
    IF \E i \in DOMAIN lines : StartTokenCount(lines, i) >= 3
    THEN Min({i \in DOMAIN lines : StartTokenCount(lines, i) >= 3})
    ELSE Len(lines)

\* Lines 151-152: str.extract(r'([0-9.]+)') keeps the first run of digits
\* and dots: the sign before it and the '#' after it are left out.
ExtractFloat(num) == num.keV

\* Lines 144-152.
Row(line) ==
    [Z |-> line.Z, A |-> line.A, symb |-> line.symb,
     mass_excess |-> ExtractFloat(line.mass_excess),
     mass_excess_err |-> ExtractFloat(line.mass_excess_err)]

\* Line 155: dict(zip(df['Z'], df['symb'])): the last row of a Z gives its symbol.
ZToSymb(rows) ==
    [z \in {rows[i].Z : i \in DOMAIN rows} |->
        rows[CHOOSE i \in DOMAIN rows :
                /\ rows[i].Z = z
                /\ \A j \in DOMAIN rows : rows[j].Z = z => j <= i].symb]

\* Line 158.
new_symb == [k \in {113, 115, 117, 118} |->
                CASE k = 113 -> <<"N", "h">> [] k = 115 -> <<"M", "c">>
                  [] k = 117 -> <<"T", "s">> [] k = 118 -> <<"O", "g">>]

\* Line 159: a later key of new_symb overwrites an earlier one.
OldToNewSymb(z2s) ==
    [old \in {z2s[k] : k \in DOMAIN new_symb} |->
        new_symb[CHOOSE k \in DOMAIN new_symb :
                    /\ z2s[k] = old
                    /\ \A m \in DOMAIN new_symb : z2s[m] = old => m <= k]]

\* Line 160.
ReplaceSymb(rows, o2n) ==
    [i \in DOMAIN rows |->
        IF rows[i].symb \in DOMAIN o2n THEN [rows[i] EXCEPT !.symb = o2n[rows[i].symb]]
        ELSE rows[i]]

\* Lines 161-162.
UpdateZToSymb(z2s) == [z \in DOMAIN z2s |-> IF z \in DOMAIN new_symb THEN new_symb[z] ELSE z2s[z]]

\* The position of the first row of charge number z: dicts keep their keys
\* in the order they were first inserted.
FirstRowOf(rows, z) == Min({i \in DOMAIN rows : rows[i].Z = z})

\* Line 165: of two Z with one symbol, the one inserted later is kept.
SymbToZ(z2s, rows) ==
    [v \in {z2s[z] : z \in DOMAIN z2s} |->
        CHOOSE z \in DOMAIN z2s :
            /\ z2s[z] = v
            /\ \A y \in DOMAIN z2s : z2s[y] = v => FirstRowOf(rows, y) <= FirstRowOf(rows, z)]

\* Line 168: the frame indexed by (A, Z).
IndexAZ(rows) == [k \in {<<rows[i].A, rows[i].Z>> : i \in DOMAIN rows} |->
                     rows[CHOOSE i \in DOMAIN rows : <<rows[i].A, rows[i].Z>> = k]]
\* No verification of the index.
NoDuplicateAZ(rows) == FALSE
\* Line 168, verify_integrity=True.
HasDuplicateAZ(rows) ==
    \E i, j \in DOMAIN rows : i # j /\ rows[i].A = rows[j].A /\ rows[i].Z = rows[j].Z

\* Lines 170-172.
KeVUnits == [Z |-> None, A |-> None, symb |-> None,
             mass_excess |-> "keV", mass_excess_err |-> "keV"]

Raised(kind, what) == [kind |-> kind, what |-> what]

\* Lines 114-174: what read_in_data does with the file: the exception it
\* raises, or the four attributes it assigns.
ReadInDataOf(file) ==
    IF ~file.exists
    THEN \* line 121 prints; line 127 then reads content, which is unbound
         Raised("UnboundLocalError", "content")
    ELSE IF file.lines = <<>>
    THEN Raised("UnboundLocalError", "line_i")
    ELSE LET cropped == SubSeq(file.lines, LineI(file.lines), Len(file.lines))
         IN IF \E i \in DOMAIN cropped : ~cropped[i].data
            THEN Raised("ValueError", "invalid literal for int()")
            ELSE LET rows == [i \in DOMAIN cropped |-> Row(cropped[i])]
                     z2s == ZToSymb(rows)
                 IN IF ~(DOMAIN new_symb \subseteq DOMAIN z2s)
                    THEN Raised("KeyError", "new_symb")
                    ELSE IF HasDuplicateAZ(rows)
                    THEN Raised("ValueError", "Index has duplicate keys")
                    ELSE [kind |-> "ok",
                          df |-> DataFrame(IndexAZ(ReplaceSymb(rows, OldToNewSymb(z2s)))),
                          units |-> KeVUnits,
                          Z_to_symb |-> Dict(UpdateZToSymb(z2s)),
                          symb_to_Z |-> Dict(SymbToZ(UpdateZToSymb(z2s), rows))]

\* ---- get_A_Z ----

\* The number of digits at the head of s, at most 3: \d{1,3} is greedy.
RECURSIVE DigitRun(_, _)
DigitRun(s, max) ==
    IF max = 0 \/ s = <<>> \/ Head(s) \notin Digits THEN 0
    ELSE 1 + DigitRun(Tail(s), max - 1)

\* Line 244: the length of the match of expected_regex at the head of s,
\* 0 when there is none.
\*   [A-Za-z][a-z]?\d{1,3}  |  \d{1,3}[A-Za-z][a-z]?
MatchLen(s) ==
    IF s = <<>> THEN 0
    ELSE IF Head(s) \in Alpha
    THEN LET low == IF Len(s) >= 2 /\ s[2] \in Lower THEN 1 ELSE 0
             d == DigitRun(SubSeq(s, 2 + low, Len(s)), 3)
         IN IF d >= 1 THEN 1 + low + d ELSE 0
    ELSE LET d == DigitRun(s, 3)
         IN IF d >= 1 /\ Len(s) > d /\ s[d + 1] \in Alpha
            THEN d + 1 + (IF Len(s) > d + 1 /\ s[d + 2] \in Lower THEN 1 ELSE 0)
            ELSE 0

\* Line 245: re.findall scans from the left and resumes after each match.
RECURSIVE FindAll(_)
FindAll(s) ==
    IF s = <<>> THEN <<>>
    ELSE IF MatchLen(s) > 0
         THEN <<SubSeq(s, 1, MatchLen(s))>> \o FindAll(SubSeq(s, MatchLen(s) + 1, Len(s)))
         ELSE FindAll(Tail(s))

\* A test that lets several tokens through.
UnexpectedFormatWhenNone(matches) == Len(matches) = 0
\* Line 246.
UnexpectedFormat(matches) == Len(matches) # 1

\* Lines 249-250.
DigitPart(match) == LET IsDigit(ch) == ch \in Digits IN SelectSeq(match, IsDigit)
AlphaPart(match) == LET IsAlpha(ch) == ch \in Alpha IN SelectSeq(match, IsAlpha)

\* Line 252: int().
RECURSIVE IntOf(_)
IntOf(digits) ==
    IF digits = <<>> THEN 0
    ELSE 10 * IntOf(SubSeq(digits, 1, Len(digits) - 1)) + DigitValue(digits[Len(digits)])

\* Line 253: str.capitalize().
Capitalize(str) ==
    [k \in DOMAIN str |-> IF k = 1 THEN ToUpper(str[k]) ELSE ToLower(str[k])]

\* Lines 241-259: what get_A_Z raises or returns.
GetAZWith(s2z, notation) ==
    LET matches == FindAll(notation)
    IN IF UnexpectedFormat(matches)
       THEN Raised("ValueError", "unexpected format")
       ELSE LET A == IntOf(DigitPart(matches[1]))
                symb == Capitalize(AlphaPart(matches[1]))
            IN IF s2z = None
               THEN Raised("AttributeError", "NoneType has no attribute keys")
               ELSE IF symb \notin DOMAIN s2z.map
               THEN Raised("ValueError", "unidentified symbol")
               ELSE [kind |-> "return", A |-> A, Z |-> s2z.map[symb]]

\* Line 242 reads data_manager.symb_to_Z.
GetAZOf(notation) == GetAZWith(symb_to_Z, notation)

\* ---- get_mass ----

\* constants.u as an energy, in keV.
AmuKeV == 931494

UnitNames == {"MeV", "keV"}
KeVPer(unit) == IF unit = "MeV" THEN 1000 ELSE 1

\* A float is kept as the pair <<a, b>> standing for a / b: an energy of
\* q keV, expressed in a unit, has the value q / KeVPer(unit).
ValueIn(keV, unit) == Quot(keV, KeVPer(unit))

\* Lines 276-279: amu is taken in MeV and the sum takes the unit of its left
\* operand, A * amu; the unit argument is not read.
MassValue(A, mass_excess, unit) == ValueIn(A * AmuKeV + mass_excess, "MeV")

Str(chars) == [type |-> "str", chars |-> chars]
Tuple(items) == [type |-> "tuple", items |-> items]

\* Lines 264-279: what get_mass raises or returns.
\* frame, df_units and s2z are the df, units and symb_to_Z the call read.
GetMassWith(frame, df_units, s2z, argv, unit) ==
    IF argv.type = "tuple"
    THEN \* line 271 unpacks the builtin tuple, not argv
         Raised("TypeError", "cannot unpack non-iterable type object")
    ELSE LET az == GetAZWith(s2z, argv.chars)
         IN IF az.kind # "return" THEN az
            ELSE IF frame = None
            THEN Raised("AttributeError", "NoneType has no attribute index")
            ELSE IF <<az.A, az.Z>> \notin DOMAIN frame.rows
            THEN Raised("ValueError", "(A, Z) not found")
            ELSE IF df_units = None
            THEN \* line 277 subscripts df_units
                 Raised("TypeError", "NoneType object is not subscriptable")
            ELSE [kind |-> "return", A |-> az.A, Z |-> az.Z,
                  value |-> MassValue(az.A, frame.rows[<<az.A, az.Z>>].mass_excess, unit)]

\* Lines 265, 266 and 242 read data_manager.df, .units and .symb_to_Z.
GetMassOf(argv, unit) == GetMassWith(df, units, symb_to_Z, argv, unit)

Notations == SeqsUpTo(Chars, MaxNotationLen)
Pairs == {<<48, 20>>, <<8, 6>>}

NoCall == [op |-> "none"]

IsoIdle ==
    /\ local_file = Absent
    /\ iso_pc = "idle"
    /\ df = None
    /\ units = None
    /\ Z_to_symb = None
    /\ symb_to_Z = None
    /\ iso_call = NoCall

\* Before skygp.isotope_mass is imported: the local copy is there or not.
InitIsoArgs ==
    /\ local_file \in {Absent} \cup {File(t) : t \in RemoteTables}
    /\ iso_pc = "unbound"
    /\ df = None
    /\ units = None
    /\ Z_to_symb = None
    /\ symb_to_Z = None
    /\ iso_call = NoCall

\* A download whatever the arguments.
DownloadsAlways(force_download, file_exists) == TRUE
\* Line 56.
Downloads(force_download, file_exists) == force_download \/ ~file_exists

\* read_in_data on each file the model holds, computed once.
ReadInDataAt ==
    [file \in {Absent, File(<<>>)} \cup {File(t) : t \in Tables} |-> ReadInDataOf(file)]

\* Lines 38-65 and 67-92: data_manager = DataManager(force_download).
\* The request of line 88 fails or answers with a table.
Construct ==
    \E force_download \in BOOLEAN, answers \in BOOLEAN, table \in RemoteTables :
        LET file_exists == local_file.exists
            downloads == Downloads(force_download, file_exists)
            \* line 83 creates the file empty; line 89 fills it
            after_download ==
                IF ~downloads THEN local_file
                ELSE IF ~answers THEN File(<<>>) ELSE File(table)
            read == ReadInDataAt[after_download]
            args == [force_download |-> force_download, downloads |-> downloads]
        IN /\ iso_pc \in {"unbound", "bound"}
           /\ local_file' = after_download
           /\ IF downloads /\ ~answers
              THEN /\ iso_call' = [op |-> "DataManager", args |-> args,
                                   result |-> Raised("ConnectionError", "download")]
                   /\ UNCHANGED <<iso_pc, df, units, Z_to_symb, symb_to_Z>>
              ELSE IF read.kind # "ok"
              THEN /\ iso_call' = [op |-> "DataManager", args |-> args, result |-> read]
                   /\ UNCHANGED <<iso_pc, df, units, Z_to_symb, symb_to_Z>>
              ELSE \* lines 62-65 run after read_in_data
                   /\ iso_call' = [op |-> "DataManager", args |-> args,
                                   result |-> [kind |-> "return"]]
                   /\ iso_pc' = "bound"
                   /\ df' = None
                   /\ units' = None
                   /\ Z_to_symb' = None
                   /\ symb_to_Z' = None
    /\ UNCHANGED <<aggVars, splitVars, concVars, csVars, geVars>>

\* The files read_in_data may be pointed at: no filepath (None) stands for
\* AME_LOCAL_PATH, another path holds a table or nothing.
FileAt(filepath) == IF filepath = None THEN local_file ELSE filepath
Filepaths == {None, Absent} \cup {File(t) : t \in Tables}

\* Lines 94-174: data_manager.read_in_data(filepath).
ReadInData ==
    /\ iso_pc = "bound"
    /\ \E filepath \in Filepaths :
       LET read == ReadInDataAt[FileAt(filepath)]
       IN /\ iso_call' = [op |-> "read_in_data", args |-> [filepath |-> filepath],
                          result |-> IF read.kind = "ok" THEN [kind |-> "return"] ELSE read]
          /\ IF read.kind = "ok"
             THEN /\ df' = read.df
                  /\ units' = read.units
                  /\ Z_to_symb' = read.Z_to_symb
                  /\ symb_to_Z' = read.symb_to_Z
             ELSE UNCHANGED <<df, units, Z_to_symb, symb_to_Z>>
    /\ UNCHANGED <<local_file, iso_pc>>
    /\ UNCHANGED <<aggVars, splitVars, concVars, csVars, geVars>>

\* get_A_Z and get_mass assign nothing but their outcome, so a query made
\* right after another one reaches no new state: the model makes the next
\* query after the next DataManager() or read_in_data().
IsQuery(call) == call.op \in {"get_A_Z", "get_mass"}

\* Lines 232-259: get_A_Z(notation).
GetAZ ==
    /\ iso_pc = "bound"
    /\ ~IsQuery(iso_call)
    /\ \E notation \in Notations :
        iso_call' = [op |-> "get_A_Z", args |-> [notation |-> notation],
                     result |-> GetAZOf(notation)]
    /\ UNCHANGED <<local_file, iso_pc, df, units, Z_to_symb, symb_to_Z>>
    /\ UNCHANGED <<aggVars, splitVars, concVars, csVars, geVars>>

\* Lines 261-279: get_mass(argv, unit).
GetMass ==
    /\ iso_pc = "bound"
    /\ ~IsQuery(iso_call)
    /\ \E argv \in {Str(n) : n \in Notations} \cup {Tuple(p) : p \in Pairs}, unit \in UnitNames :
        iso_call' = [op |-> "get_mass", args |-> [argv |-> argv, unit |-> unit],
                     result |-> GetMassOf(argv, unit)]
    /\ UNCHANGED <<local_file, iso_pc, df, units, Z_to_symb, symb_to_Z>>
    /\ UNCHANGED <<aggVars, splitVars, concVars, csVars, geVars>>

NextIso == Construct \/ ReadInData \/ GetAZ \/ GetMass

ConcIdle == rebuild = None /\ reader = None
CsIdle == coll_sys = None /\ cs_call = NoCall
GeIdle == emulator = None /\ ge_call = NoCall

(***************************************************************************)
(* read_in_data on the live data_manager while another thread is inside    *)
(* get_A_Z or get_mass.  The module takes no lock, so the threads          *)
(* interleave between statements: the four assignments of lines 169-174    *)
(* and the reads of lines 265, 266 and 242 are steps of their own.         *)
(* A build is numbered; `installed` keeps, for each attribute, the number  *)
(* of the build that assigned it, and the reader notes the number of the   *)
(* build of each attribute it reads.                                       *)
(***************************************************************************)
MaxBuilds == 2

AttributeNames == {"df", "units", "Z_to_symb", "symb_to_Z"}

\* The notations the reader asks for, and the tables a rebuild reads.
ConcNotations == {<<"c", "8">>, <<"C", "a", "4", "8">>, <<"8">>}
ConcTables == {Mass16, Mass16SharedSymbol, Mass16Duplicate}

RebuildIdle(n, installed, result) ==
    [pc |-> "idle", id |-> n, build |-> None, installed |-> installed, result |-> result]
ReaderIdle == [pc |-> "idle"]

\* data_manager is bound; it holds what DataManager() left (lines 62-65) or
\* the table of an earlier read_in_data(): build 0.
InitConcArgs ==
    /\ local_file = File(Mass16)
    /\ iso_pc = "bound"
    /\ iso_call = NoCall
    /\ \E loaded \in BOOLEAN :
        LET read == ReadInDataOf(local_file)
        IN /\ df = IF loaded THEN read.df ELSE None
           /\ units = IF loaded THEN read.units ELSE None
           /\ Z_to_symb = IF loaded THEN read.Z_to_symb ELSE None
           /\ symb_to_Z = IF loaded THEN read.symb_to_Z ELSE None
    /\ rebuild = RebuildIdle(0, [a \in AttributeNames |-> 0], None)
    /\ reader = ReaderIdle

\* Lines 114-168: read_in_data(filepath) up to the assignments; an exception
\* ends the call there.
RebuildStart ==
    /\ rebuild.pc = "idle"
    /\ rebuild.id < MaxBuilds
    /\ \E table \in ConcTables :
        LET read == ReadInDataOf(File(table))
        IN rebuild' = IF read.kind = "ok"
                      THEN [rebuild EXCEPT !.pc = "line_169", !.id = @ + 1,
                                           !.build = read, !.result = None]
                      ELSE [rebuild EXCEPT !.result = read]
    /\ UNCHANGED <<isoVars, reader>>
    /\ UNCHANGED <<aggVars, splitVars, csVars, geVars>>

\* Lines 169-174, one assignment at a time.
RebuildAssign ==
    /\ rebuild.pc \in {"line_169", "line_170", "line_173", "line_174"}
    /\ df' = IF rebuild.pc = "line_169" THEN rebuild.build.df ELSE df
    /\ units' = IF rebuild.pc = "line_170" THEN rebuild.build.units ELSE units
    /\ Z_to_symb' = IF rebuild.pc = "line_173" THEN rebuild.build.Z_to_symb ELSE Z_to_symb
    /\ symb_to_Z' = IF rebuild.pc = "line_174" THEN rebuild.build.symb_to_Z ELSE symb_to_Z
    /\ rebuild' =
         LET attr == CASE rebuild.pc = "line_169" -> "df"
                       [] rebuild.pc = "line_170" -> "units"
                       [] rebuild.pc = "line_173" -> "Z_to_symb"
                       [] rebuild.pc = "line_174" -> "symb_to_Z"
             wrote == [rebuild.installed EXCEPT ![attr] = rebuild.id]
         IN IF rebuild.pc = "line_174"
            THEN RebuildIdle(rebuild.id, wrote, [kind |-> "return"])
            ELSE [rebuild EXCEPT !.installed = wrote,
                                 !.pc = CASE rebuild.pc = "line_169" -> "line_170"
                                          [] rebuild.pc = "line_170" -> "line_173"
                                          [] rebuild.pc = "line_173" -> "line_174"]
    /\ UNCHANGED <<local_file, iso_pc, iso_call, reader>>
    /\ UNCHANGED <<aggVars, splitVars, csVars, geVars>>

\* A thread enters get_A_Z(notation) or get_mass(notation, unit).
ReaderCall ==
    /\ reader.pc \in {"idle", "done"}
    /\ \E op \in {"get_A_Z", "get_mass"}, notation \in ConcNotations, unit \in UnitNames :
        reader' = [pc |-> IF op = "get_mass" THEN "line_265" ELSE "line_242",
                   op |-> op, notation |-> notation,
                   unit |-> IF op = "get_mass" THEN unit ELSE "MeV",
                   df |-> None, units |-> None, symb_to_Z |-> None,
                   builds |-> <<>>, result |-> None]
    /\ UNCHANGED <<isoVars, rebuild>>
    /\ UNCHANGED <<aggVars, splitVars, csVars, geVars>>

\* Lines 265 and 266 of get_mass, then line 242 of get_A_Z (which get_mass
\* calls at line 269): each reads one attribute of data_manager.  After the
\* last read the call computes its outcome from what it read.
ReaderRead ==
    /\ reader.pc \in {"line_265", "line_266", "line_242"}
    /\ reader' =
         IF reader.pc = "line_265"
         THEN [reader EXCEPT !.pc = "line_266", !.df = df,
                             !.builds = Append(@, rebuild.installed["df"])]
         ELSE IF reader.pc = "line_266"
         THEN [reader EXCEPT !.pc = "line_242", !.units = units,
                             !.builds = Append(@, rebuild.installed["units"])]
         ELSE [reader EXCEPT
                 !.pc = "done", !.symb_to_Z = symb_to_Z,
                 !.builds = Append(@, rebuild.installed["symb_to_Z"]),
                 !.result = IF reader.op = "get_A_Z"
                            THEN GetAZWith(symb_to_Z, reader.notation)
                            ELSE GetMassWith(reader.df, reader.units, symb_to_Z,
                                             Str(reader.notation), reader.unit)]
    /\ UNCHANGED <<isoVars, rebuild>>
    /\ UNCHANGED <<aggVars, splitVars, csVars, geVars>>

NextConc == RebuildStart \/ RebuildAssign \/ ReaderCall \/ ReaderRead

(***************************************************************************)
(* CollisionSystem (collision_system.py)                                   *)
(*                                                                         *)
(* A Python value is a record with its type; a float holds a whole number  *)
(* here (140.0 is PyFloat(140)).                                           *)
(***************************************************************************)
PyInt(v) == [type |-> "int", value |-> v]
PyFloat(v) == [type |-> "float", value |-> v]
PyBool(b) == [type |-> "bool", value |-> IF b THEN 1 ELSE 0]
PyList == [type |-> "list", value |-> 0]
TypeOf(x) == IF x = None THEN "NoneType" ELSE x.type

\* isinstance(x, int): a bool is an int.
IsInstanceInt(x) == TypeOf(x) \in {"int", "bool"}
IsInstanceFloat(x) == TypeOf(x) = "float"
IsInstanceBool(x) == TypeOf(x) = "bool"

\* The arguments the model passes.
NuclideStrings ==
    { <<"C", "a", "4", "8">>, <<"4", "8", "C", "a">>, <<"C", "a">>, <<"C", "_", "4">> }
ProjValues == {Str(n) : n \in NuclideStrings} \cup {None, PyInt(1), PyFloat(1), PyBool(TRUE), PyList}
SkyrmeValues == {None, PyInt(1), PyInt(12), PyBool(TRUE), PyFloat(1), PyList}
EnergyValues == {None, PyFloat(140), PyInt(1), PyList}
ImpParamValues == {None, PyFloat(2), PyInt(1)}
ImqmdValues == {None, PyBool(TRUE), PyBool(FALSE), PyInt(1), PyFloat(1), Str(<<"a">>), PyList}

\* Lines 49 and 51: the characters of class [A-z] (the letters and, between
\* 'Z' and 'a', the underscore among others), joined and lower-cased.
InAzClass(ch) == ch \in Alpha \cup {"_"}
SymbOf(chars) == LET joined == SelectSeq(chars, InAzClass)
                 IN [k \in DOMAIN joined |-> ToLower(joined[k])]

\* Lines 50 and 52: the characters of class [0-9], joined.
DigitsOf(chars) == LET IsDigit(ch) == ch \in Digits IN SelectSeq(chars, IsDigit)

\* str() of a natural number, and '%03d' % n.
DigitChars == <<"0", "1", "2", "3", "4", "5", "6", "7", "8", "9">>
RECURSIVE IntStr(_)
IntStr(n) == IF n < 10 THEN <<DigitChars[n + 1]>>
             ELSE IntStr(n \div 10) \o <<DigitChars[(n % 10) + 1]>>
Pad3(n) == [k \in 1..(3 - Len(IntStr(n))) |-> "0"] \o IntStr(n)

\* Lines 85-100: get_name(imqmd) on an object with the attributes of self.
\* Line 98 adds the float imp_param to the string 'b%d'.
GetNameOf(self, imqmd) ==
    IF imqmd # None /\ ~IsInstanceBool(imqmd)
    THEN Raised("TypeError", "imqmd must be a boolean.")
    ELSE IF self.imp_param # None
    THEN Raised("TypeError", "can only concatenate str (not float) to str")
    ELSE LET add_underscore == ~(self.skyrme = None /\ self.energy = None /\ self.imp_param = None)
         IN [kind |-> "return",
             name |-> self.proj_symb \o IntStr(self.proj_A)
                      \o self.targ_symb \o IntStr(self.targ_A)
                      \o (IF add_underscore THEN <<"_">> ELSE <<>>)
                      \o (IF self.skyrme # None THEN Pad3(self.skyrme.value) ELSE <<>>)
                      \o (IF self.energy # None THEN <<"e">> \o IntStr(self.energy.value) ELSE <<>>)
                      \o (IF imqmd # None /\ imqmd.value = 1 THEN <<"x", "-", "1">> ELSE <<>>)]

\* Lines 49-66: what CollisionSystem(proj, targ, skyrme, energy, imp_param)
\* raises, or the object it builds.
CollisionSystemOf(proj, targ, skyrme, energy, imp_param) ==
    IF TypeOf(proj) # "str"
    THEN Raised("TypeError", "expected string or bytes-like object")
    ELSE IF DigitsOf(proj.chars) = <<>>
    THEN Raised("ValueError", "invalid literal for int()")
    ELSE IF TypeOf(targ) # "str"
    THEN Raised("TypeError", "expected string or bytes-like object")
    ELSE IF DigitsOf(targ.chars) = <<>>
    THEN Raised("ValueError", "invalid literal for int()")
    ELSE IF skyrme # None /\ ~IsInstanceInt(skyrme)
    THEN Raised("TypeError", "skyrme must be an integer.")
    ELSE IF energy # None /\ ~IsInstanceFloat(energy)
    THEN Raised("TypeError", "energy must be an integer.")
    ELSE IF imp_param # None /\ ~IsInstanceFloat(imp_param)
    THEN Raised("TypeError", "imp_param must be an integer.")
    ELSE LET self == [proj_symb |-> SymbOf(proj.chars), proj_A |-> IntOf(DigitsOf(proj.chars)),
                      targ_symb |-> SymbOf(targ.chars), targ_A |-> IntOf(DigitsOf(targ.chars)),
                      skyrme |-> skyrme, energy |-> energy, imp_param |-> imp_param]
             name == GetNameOf(self, PyBool(FALSE))
         IN IF name.kind # "return" THEN name
            ELSE [kind |-> "return",
                  self |-> [proj_symb |-> self.proj_symb, proj_A |-> self.proj_A,
                            targ_symb |-> self.targ_symb, targ_A |-> self.targ_A,
                            skyrme |-> skyrme, energy |-> energy, imp_param |-> imp_param,
                            name |-> name.name]]

InitCsArgs == coll_sys = None /\ cs_call = NoCall

\* coll_sys = CollisionSystem(proj, targ, skyrme, energy, imp_param)
CsConstruct ==
    /\ cs_call = NoCall
    /\ \E proj \in ProjValues, targ \in ProjValues, skyrme \in SkyrmeValues,
          energy \in EnergyValues, imp_param \in ImpParamValues :
        LET made == CollisionSystemOf(proj, targ, skyrme, energy, imp_param)
        IN /\ cs_call' = [op |-> "CollisionSystem",
                          args |-> [proj |-> proj, targ |-> targ, skyrme |-> skyrme,
                                    energy |-> energy, imp_param |-> imp_param],
                          result |-> IF made.kind = "return" THEN [kind |-> "return"] ELSE made]
           /\ coll_sys' = IF made.kind = "return" THEN made.self ELSE coll_sys
    /\ UNCHANGED <<aggVars, splitVars, isoVars, concVars, geVars>>

\* coll_sys.get_name(imqmd)
CsGetName ==
    /\ coll_sys # None
    /\ cs_call.op = "CollisionSystem"
    /\ \E imqmd \in ImqmdValues :
        cs_call' = [op |-> "get_name", args |-> [imqmd |-> imqmd],
                    result |-> GetNameOf(coll_sys, imqmd)]
    /\ UNCHANGED coll_sys
    /\ UNCHANGED <<aggVars, splitVars, isoVars, concVars, geVars>>

NextCs == CsConstruct \/ CsGetName

(***************************************************************************)
(* GaussianEmulator (gaussian_emulator.py)                                 *)
(*                                                                         *)
(* A numpy array is kept by its number of dimensions and of rows.  The     *)
(* regressor is sklearn's GaussianProcessRegressor: the model keeps what   *)
(* it was fitted with and how often fit or predict was called on it; it    *)
(* refuses, with ValueError, training sets of unequal row counts and       *)
(* inputs that are not two-dimensional.                                    *)
(***************************************************************************)
MaxNdim == 3
MaxArrayRows == 2
MaxCalls == 2

NdArray(ndim, rows) == [type |-> "ndarray", ndim |-> ndim, rows |-> rows]
Arrays == {NdArray(ndim, rows) : ndim \in 1..MaxNdim, rows \in 1..MaxArrayRows}
MatrixValues == Arrays \cup {PyInt(1), PyList, Str(<<"a">>)}
NItrValues == {PyInt(1), PyBool(TRUE), PyFloat(1), PyList}

IsNdArray(x) == TypeOf(x) = "ndarray"

\* Lines 29-31.
InitGeArgs ==
    /\ emulator = [x_train |-> None, y_train |-> None,
                   regressor |-> [n_restarts_optimizer |-> PyInt(0), fitted |-> None, calls |-> 0]]
    /\ ge_call = NoCall

\* Lines 40-43: set_niterations(n_itr).
SetNiterations ==
    /\ \E n_itr \in NItrValues :
        IF ~IsInstanceInt(n_itr)
        THEN /\ ge_call' = [op |-> "set_niterations", args |-> [n_itr |-> n_itr],
                            result |-> Raised("TypeError", "n_itr must be an integer.")]
             /\ UNCHANGED emulator
        ELSE /\ ge_call' = [op |-> "set_niterations", args |-> [n_itr |-> n_itr],
                            result |-> [kind |-> "return"]]
             /\ emulator' = [emulator EXCEPT !.regressor.n_restarts_optimizer = n_itr]
    /\ UNCHANGED <<aggVars, splitVars, isoVars, concVars, csVars>>

\* Lines 56-63: the wrapper's validation in fit: the error it raises, or None.
FitRejects(x, y) ==
    IF ~IsNdArray(x) THEN Raised("TypeError", "x_train must be a numpy array.")
    ELSE IF ~IsNdArray(y) THEN Raised("TypeError", "y_train must be a numpy array.")
    ELSE IF x.ndim # 2 THEN Raised("ValueError", "x_train must be two-dimensional.")
    ELSE IF y.ndim # 2 THEN Raised("ValueError", "y_train must be two-dimensional.")
    ELSE None

\* Lines 45-67: fit(x_train, y_train).  The copies are stored before the
\* regressor is called.
Fit ==
    /\ emulator.regressor.calls < MaxCalls
    /\ \E x \in MatrixValues, y \in MatrixValues :
        LET args == [x_train |-> x, y_train |-> y]
        IN IF FitRejects(x, y) # None
           THEN /\ ge_call' = [op |-> "fit", args |-> args, result |-> FitRejects(x, y)]
                /\ UNCHANGED emulator
           ELSE /\ ge_call' = [op |-> "fit", args |-> args,
                               result |-> IF x.rows # y.rows
                                          THEN Raised("ValueError", "regressor: inconsistent numbers of samples")
                                          ELSE [kind |-> "return"]]
                /\ emulator' =
                     [emulator EXCEPT !.x_train = x, !.y_train = y,
                                      !.regressor.calls = @ + 1,
                                      !.regressor.fitted =
                                          IF x.rows # y.rows THEN @ ELSE [x |-> x, y |-> y]]
    /\ UNCHANGED <<aggVars, splitVars, isoVars, concVars, csVars>>

\* Lines 88-89: the wrapper's validation in predict.
PredictRejects(x_test) ==
    IF ~IsNdArray(x_test) THEN Raised("TypeError", "x_test must be a numpy array.")
    ELSE None

\* Lines 69-92: predict(x_test).
Predict ==
    /\ emulator.regressor.calls < MaxCalls
    /\ \E x_test \in MatrixValues :
        LET args == [x_test |-> x_test]
        IN IF PredictRejects(x_test) # None
           THEN /\ ge_call' = [op |-> "predict", args |-> args, result |-> PredictRejects(x_test)]
                /\ UNCHANGED emulator
           ELSE /\ ge_call' = [op |-> "predict", args |-> args,
                               result |-> IF x_test.ndim # 2
                                          THEN Raised("ValueError", "regressor: expected 2D array")
                                          ELSE [kind |-> "return", rows |-> x_test.rows]]
                /\ emulator' = [emulator EXCEPT !.regressor.calls = @ + 1]
    /\ UNCHANGED <<aggVars, splitVars, isoVars, concVars, csVars>>

NextGe == SetNiterations \/ Fit \/ Predict

(***************************************************************************)
(* Specifications.                                                         *)
(***************************************************************************)
InitAgg == InitAggArgs /\ SplitIdle /\ IsoIdle /\ ConcIdle /\ CsIdle /\ GeIdle

InitSplit == InitSplitArgs /\ AggIdle /\ IsoIdle /\ ConcIdle /\ CsIdle /\ GeIdle

InitIso == InitIsoArgs /\ AggIdle /\ SplitIdle /\ ConcIdle /\ CsIdle /\ GeIdle

SpecAgg == InitAgg /\ [][NextAgg]_vars

SpecSplit == InitSplit /\ [][NextSplit]_vars

SpecIso == InitIso /\ [][NextIso]_vars

InitConc == InitConcArgs /\ AggIdle /\ SplitIdle /\ CsIdle /\ GeIdle

SpecConc == InitConc /\ [][NextConc]_vars

InitCs == InitCsArgs /\ AggIdle /\ SplitIdle /\ IsoIdle /\ ConcIdle /\ GeIdle

SpecCs == InitCs /\ [][NextCs]_vars

InitGe == InitGeArgs /\ AggIdle /\ SplitIdle /\ IsoIdle /\ ConcIdle /\ CsIdle

SpecGe == InitGe /\ [][NextGe]_vars



(***************************************************************************)
(* Claims about get_data.                                                  *)
(***************************************************************************)
AggDone == agg_pc \in {"raised", "returned"}

\* The call of the claims: each template holds exactly one placeholder.
OnePlaceholderEach ==
    CountPlaceholder(subdir_fmt_numer) = 1 /\ CountPlaceholder(subdir_fmt_denom) = 1

\* The rows of a run file whose energy lies in the range, both ends included.
PostFilter(sys, code) ==
    LET InRange(r) == energy_range[1] <= r.ene_cm /\ r.ene_cm <= energy_range[2]
    IN SelectSeq(files[sys][code], InRange)
PostFilterEnergies(sys, code) ==
    [k \in DOMAIN PostFilter(sys, code) |-> PostFilter(sys, code)[k].ene_cm]

\* C1: in a successful build the output row of every code holds, in grid
\* order, for each energy of the range the numerator file's single_ratio
\* divided by the denominator file's single_ratio at that energy, wherever
\* the rows sit inside each file.
C1_DoubleRatioIsQuotient ==
    agg_pc = "returned" =>
        \A k \in DOMAIN param_codes :
            LET numer == PostFilter("numer", param_codes[k])
                denom == PostFilter("denom", param_codes[k])
            IN \A j \in DOMAIN numer :
                /\ k \in DOMAIN y_train
                /\ j \in DOMAIN y_train[k].values
                /\ j \in DOMAIN denom
                /\ y_train[k].values[j] = Quot(numer[j].single_ratio, denom[j].single_ratio)

\* C2: the canonical grid is the post-filter energy sequence of the first
\* code; when a later code's sequence differs from it (also when the first
\* one is empty) the build fails with a consistency error naming that code
\* and returns nothing.
C2_GridMismatchFails ==
    (AggDone /\ OnePlaceholderEach) =>
        /\ (agg_pc = "returned" /\ param_codes # <<>>) =>
               header_train = PostFilterEnergies("numer", param_codes[1])
        /\ \A k \in DOMAIN param_codes :
               (/\ k > 1
                /\ \A j \in 1..k : PostFilterEnergies("numer", param_codes[j])
                                    = PostFilterEnergies("denom", param_codes[j])
                /\ \A j \in 1..(k - 1) : PostFilterEnergies("numer", param_codes[j])
                                          = PostFilterEnergies("numer", param_codes[1])
                /\ PostFilterEnergies("numer", param_codes[k])
                     # PostFilterEnergies("numer", param_codes[1]))
               => /\ agg_pc = "raised"
                  /\ agg_result.kind = "ValueError"
                  /\ agg_result.what = "Mismatch ene_cm"
                  /\ agg_result.code = param_codes[k]

\* C3: get_data fails with a consistency error and returns nothing whenever
\* the numerator and denominator post-filter energy sequences of some code
\* differ, and no double ratio is computed for that code.
C3_PairMismatchFails ==
    (AggDone /\ OnePlaceholderEach) =>
        \A k \in DOMAIN param_codes :
            PostFilterEnergies("numer", param_codes[k]) # PostFilterEnergies("denom", param_codes[k])
            => /\ agg_pc = "raised"
               /\ agg_result.kind = "ValueError"
               /\ agg_result.what \in {"inconsistent ene_cm", "Mismatch ene_cm"}
               /\ Len(y_train) < k

\* C4: a returned TrainingSet has one row per entry of the code list in the
\* caller's order, and row i of the input matrix is the row of the parameter
\* index whose code is code_list[i]: never a row of missing values.
C4_RowsAreIndexRows ==
    agg_pc = "returned" =>
        /\ Len(x_train) = Len(param_codes)
        /\ Len(y_train) = Len(param_codes)
        /\ \A i \in DOMAIN param_codes :
            /\ y_train[i].code = param_codes[i]
            /\ param_codes[i] \in param_file
            /\ x_train[i] = ParamRow(param_codes[i])

\* C5: a template that does not hold exactly one placeholder (none, or more
\* than one) makes get_data raise the format error before the parameter
\* index or any run file is read.
C5_TemplateRejectedBeforeIO ==
    (agg_pc \notin {"idle", "check_subdir_fmt"} /\ ~OnePlaceholderEach) =>
        /\ agg_pc = "raised"
        /\ agg_result.kind = "ValueError"
        /\ agg_result.what = "placeholder"
        /\ opened = <<>>

(***************************************************************************)
(* Claims about auto_column_splitter.                                      *)
(***************************************************************************)
\* A line without its newline.
WithoutNewline(line) ==
    IF line # <<>> /\ line[Len(line)] = Newline THEN SubSeq(line, 1, Len(line) - 1) ELSE line

RECURSIVE Concat(_)
Concat(fields) == IF fields = <<>> THEN <<>> ELSE Head(fields) \o Concat(Tail(fields))

BoundaryDetected == split_pc # "call" /\ content # <<>> /\ Len(split_pos) > 1

\* C6: for a non-empty batch in which at least one boundary is detected,
\* every returned row has as many fields as there are recorded boundaries
\* plus one, and the fields of a row, concatenated in order, give the line
\* without its newline (what lies beyond the shortest line's length is kept
\* in the last field).
C6_RowsRebuildLines ==
    BoundaryDetected =>
        /\ split_pc = "returned"
        /\ DOMAIN splitted_content.rows = DOMAIN content
        /\ \A i \in DOMAIN content :
            /\ Len(splitted_content.rows[i]) = (Len(split_pos) - 1) + 1
            /\ Concat(splitted_content.rows[i]) = WithoutNewline(content[i])

\* A boundary was detected and some line runs beyond the shortest line's
\* length; its last field holds what lies beyond.
C6_Witness ==
    /\ BoundaryDetected
    /\ split_pc = "returned"
    /\ \E i \in DOMAIN content :
        LET row == splitted_content.rows[i]
        IN /\ Len(WithoutNewline(content[i])) > MinLineLength(content)
           /\ row[Len(row)] # <<>>
           /\ row[Len(row)][Len(row[Len(row)])] = "a"
           /\ split_pos[Len(split_pos)] + Len(row[Len(row)]) > MinLineLength(content)

(***************************************************************************)
(* Claims about DataManager, get_A_Z and get_mass.                         *)
(***************************************************************************)
Attributes == <<df, units, Z_to_symb, symb_to_Z>>

\* C7: when the construction of a DataManager completes without error, df,
\* units, Z_to_symb and symb_to_Z hold the table and the maps read_in_data
\* produced, and no later get_A_Z or get_mass call changes any of them.
C7_ConstructedHoldsTable ==
    [][/\ (iso_call'.op = "DataManager" /\ iso_call' # iso_call
             /\ iso_call'.result.kind = "return")
          => /\ ReadInDataOf(local_file').kind = "ok"
             /\ df' = ReadInDataOf(local_file').df
             /\ units' = ReadInDataOf(local_file').units
             /\ Z_to_symb' = ReadInDataOf(local_file').Z_to_symb
             /\ symb_to_Z' = ReadInDataOf(local_file').symb_to_Z
       /\ IsQuery(iso_call') => Attributes' = Attributes]_vars

\* The notations of C8: 1-2 letters and 1-3 digits, in either order.
IsLetters(str) == Len(str) \in 1..2 /\ \A k \in DOMAIN str : str[k] \in Alpha
IsDigits(str) == Len(str) \in 1..3 /\ \A k \in DOMAIN str : str[k] \in Digits

\* C8: whatever the order of the two parts and the case of the letters,
\* get_A_Z returns (A, symb_to_Z[symbol]) for every symbol of symb_to_Z and
\* every mass number of 1 to 3 digits.
C8_AnyCasingResolves ==
    (iso_call.op = "get_A_Z" /\ symb_to_Z # None) =>
        LET notation == iso_call.args.notation
        IN \A k \in 1..(Len(notation) - 1) :
            LET head == SubSeq(notation, 1, k)
                tail == SubSeq(notation, k + 1, Len(notation))
            IN /\ (IsLetters(head) /\ IsDigits(tail)
                     /\ Capitalize(head) \in DOMAIN symb_to_Z.map)
                  => iso_call.result = [kind |-> "return", A |-> IntOf(tail),
                                        Z |-> symb_to_Z.map[Capitalize(head)]]
               /\ (IsDigits(head) /\ IsLetters(tail)
                     /\ Capitalize(tail) \in DOMAIN symb_to_Z.map)
                  => iso_call.result = [kind |-> "return", A |-> IntOf(head),
                                        Z |-> symb_to_Z.map[Capitalize(tail)]]

\* C9: get_A_Z returns a pair only when the scan of the whole input finds
\* exactly one notation token; with no token or more than one it raises the
\* format error and returns nothing.
C9_ExactlyOneToken ==
    iso_call.op = "get_A_Z" =>
        LET tokens == Len(FindAll(iso_call.args.notation))
        IN /\ iso_call.result.kind = "return" => tokens = 1
           /\ tokens # 1 => iso_call.result = Raised("ValueError", "unexpected format")

\* The table is loaded and the input holds two tokens, the first of a known
\* symbol: get_A_Z raised the format error.
C9_Witness ==
    /\ iso_call.op = "get_A_Z"
    /\ symb_to_Z # None
    /\ Len(FindAll(iso_call.args.notation)) = 2
    /\ Capitalize(AlphaPart(FindAll(iso_call.args.notation)[1])) \in DOMAIN symb_to_Z.map
    /\ iso_call.result = Raised("ValueError", "unexpected format")

\* C10: get_mass(x, unit) returns A times the atomic mass unit plus the
\* record's mass_excess, expressed in the requested unit; the value returned
\* for keV is 1000 times the one returned for MeV.
C10_MassInRequestedUnit ==
    (iso_call.op = "get_mass" /\ iso_call.result.kind = "return") =>
        LET A == iso_call.result.A
            Z == iso_call.result.Z
        IN iso_call.result.value =
             ValueIn(A * AmuKeV + df.rows[<<A, Z>>].mass_excess, iso_call.args.unit)

\* C11: get_mass given a pair (A, Z) of the table returns what get_mass
\* returns for a notation that resolves to that pair; the pair form does not
\* raise.
C11_PairFormMatchesNotation ==
    (/\ iso_call.op = "get_mass"
     /\ iso_call.args.argv.type = "tuple"
     /\ df # None
     /\ iso_call.args.argv.items \in DOMAIN df.rows) =>
        LET pair == iso_call.args.argv.items
        IN /\ iso_call.result.kind = "return"
           /\ \A n \in Notations :
                GetAZOf(n) = [kind |-> "return", A |-> pair[1], Z |-> pair[2]]
                => iso_call.result = GetMassOf(Str(n), iso_call.args.unit)

(***************************************************************************)
(* Claims about read_in_data and the construction of a DataManager.        *)
(***************************************************************************)
\* The file a read_in_data call was pointed at.
FileRead(call) == IF call.args.filepath = None THEN local_file ELSE call.args.filepath

\* The data rows of a file: its lines from the cut of lines 124-133 on.
TableRows(file) ==
    IF ~file.exists \/ file.lines = <<>> THEN <<>>
    ELSE SubSeq(file.lines, LineI(file.lines), Len(file.lines))

HasTwoRowsOfOnePair(file) ==
    LET rows == TableRows(file)
    IN \E i, j \in DOMAIN rows :
        i # j /\ rows[i].A = rows[j].A /\ rows[i].Z = rows[j].Z

\* C12: read_in_data on a table with two data rows of one (A, Z) fails with
\* an error and installs nothing: df, units, Z_to_symb and symb_to_Z keep the
\* values they had before the call.
C12_DuplicateInstallsNothing ==
    [][(iso_call'.op = "read_in_data" /\ HasTwoRowsOfOnePair(FileRead(iso_call')))
       => /\ iso_call'.result.kind \notin {"return", "ok"}
          /\ Attributes' = Attributes]_vars

\* A table was installed, then read_in_data was pointed at a table with a
\* duplicate pair: it raised and the first table is still the one installed.
C12_Witness ==
    /\ iso_call.op = "read_in_data"
    /\ HasTwoRowsOfOnePair(FileRead(iso_call))
    /\ iso_call.result = Raised("ValueError", "Index has duplicate keys")
    /\ df = ReadInDataOf(File(Mass16)).df
    /\ symb_to_Z = ReadInDataOf(File(Mass16)).symb_to_Z

\* A file read_in_data can turn into rows with distinct (A, Z).
IsTable(file) ==
    /\ TableRows(file) # <<>>
    /\ \A i \in DOMAIN TableRows(file) : TableRows(file)[i].data
    /\ ~HasTwoRowsOfOnePair(file)

SharesSymbol(file) ==
    \E i, j \in DOMAIN TableRows(file) :
        /\ TableRows(file)[i].Z # TableRows(file)[j].Z
        /\ TableRows(file)[i].symb = TableRows(file)[j].symb

\* C13: after every successful read_in_data symb_to_Z is the inverse of
\* Z_to_symb, symb_to_Z[Z_to_symb[Z]] = Z for every Z of the table, and a
\* table that gives two distinct Z one symbol makes the call fail.
C13_SymbToZInvertsZToSymb ==
    iso_call.op = "read_in_data" =>
        /\ iso_call.result.kind = "return" =>
              \A z \in DOMAIN Z_to_symb.map :
                  /\ Z_to_symb.map[z] \in DOMAIN symb_to_Z.map
                  /\ symb_to_Z.map[Z_to_symb.map[z]] = z
        /\ (IsTable(FileRead(iso_call)) /\ SharesSymbol(FileRead(iso_call)))
              => iso_call.result.kind # "return"

\* C14: after read_in_data on a table with records of Z = 113 under a legacy
\* symbol, Z_to_symb[113] is 'Nh', every record of Z = 113 carries 'Nh' and
\* symb_to_Z['Nh'] = 113; likewise 115/'Mc', 117/'Ts', 118/'Og', each
\* whether or not the other three charge numbers occur in the table.
C14_LegacySymbolsRemapped ==
    (iso_call.op = "read_in_data" /\ IsTable(FileRead(iso_call))) =>
        \A k \in DOMAIN new_symb :
            (\E i \in DOMAIN TableRows(FileRead(iso_call)) : TableRows(FileRead(iso_call))[i].Z = k)
            => /\ iso_call.result.kind = "return"
               /\ Z_to_symb.map[k] = new_symb[k]
               /\ \A key \in DOMAIN df.rows : key[2] = k => df.rows[key].symb = new_symb[k]
               /\ symb_to_Z.map[new_symb[k]] = k

\* C15: DataManager(force_download=False) with a local copy in place makes no
\* download and leaves the local file as it is; a download is made exactly
\* when force_download is True or there is no local file.
C15_DownloadOnlyWhenNeeded ==
    [][iso_call'.op = "DataManager"
       => /\ iso_call'.args.downloads
               <=> (iso_call'.args.force_download \/ ~local_file.exists)
          /\ (~iso_call'.args.force_download /\ local_file.exists)
               => local_file' = local_file]_vars

\* A DataManager was constructed without force_download from the local copy:
\* no download was made.
C15_Witness ==
    /\ iso_call.op = "DataManager"
    /\ ~iso_call.args.force_download
    /\ ~iso_call.args.downloads
    /\ iso_call.result.kind = "return"
    /\ local_file = File(Mass16)

\* C17: read_in_data on a file that cannot be opened reports an I/O error to
\* its caller and leaves df, units and both maps unchanged.
C17_UnreadableFileRaisesIOError ==
    [][(iso_call'.op = "read_in_data" /\ ~FileRead(iso_call').exists)
       => /\ iso_call'.result.kind = "IOError"
          /\ Attributes' = Attributes]_vars

(***************************************************************************)
(* Claims about read_in_data beside a reader.                              *)
(***************************************************************************)
\* C16: while read_in_data rebuilds the table of the live data_manager, a
\* reader inside get_A_Z or get_mass never observes a mixed state: the
\* attributes it reads all come from one build, the old one or the new one.
C16_ReaderSeesOneBuild ==
    reader.pc # "idle" =>
        \A i, j \in DOMAIN reader.builds : reader.builds[i] = reader.builds[j]

(***************************************************************************)
(* Claims about CollisionSystem.                                           *)
(***************************************************************************)
\* A nuclide notation: letters then digits, or digits then letters.
IsNuclide(x) ==
    /\ TypeOf(x) = "str"
    /\ \E k \in 1..(Len(x.chars) - 1) :
        LET head == SubSeq(x.chars, 1, k)
            tail == SubSeq(x.chars, k + 1, Len(x.chars))
        IN \/ (\A i \in DOMAIN head : head[i] \in Alpha) /\ (\A i \in DOMAIN tail : tail[i] \in Digits)
           \/ (\A i \in DOMAIN head : head[i] \in Digits) /\ (\A i \in DOMAIN tail : tail[i] \in Alpha)

WellTyped(args) ==
    /\ IsNuclide(args.proj)
    /\ IsNuclide(args.targ)
    /\ TypeOf(args.skyrme) \in {"NoneType", "int"}
    /\ TypeOf(args.energy) \in {"NoneType", "float"}
    /\ TypeOf(args.imp_param) \in {"NoneType", "float"}

\* The name the documentation describes, for the attributes of an object.
DocumentedName(proj_symb, proj_A, targ_symb, targ_A, skyrme, energy, imp_param, imqmd) ==
    proj_symb \o IntStr(proj_A) \o targ_symb \o IntStr(targ_A)
    \o (IF skyrme = None /\ energy = None /\ imp_param = None THEN <<>> ELSE <<"_">>)
    \o (IF skyrme = None THEN <<>> ELSE Pad3(skyrme.value))
    \o (IF energy = None THEN <<>> ELSE <<"e">> \o IntStr(energy.value))
    \o (IF imp_param = None THEN <<>> ELSE <<"b">> \o IntStr(imp_param.value))
    \o (IF imqmd THEN <<"x", "-", "1">> ELSE <<>>)

\* C18: the construction of a CollisionSystem from well-typed arguments
\* succeeds, and get_name returns the lower-case projectile symbol and mass
\* number, those of the target, '_' if skyrme, energy or imp_param is given,
\* then the 3-digit skyrme, 'e' and the energy, 'b' and the impact
\* parameter, then 'x-1' when imqmd is True.
C18_NameOfWellTypedSystem ==
    /\ (cs_call.op = "CollisionSystem" /\ WellTyped(cs_call.args)) =>
          /\ cs_call.result.kind = "return"
          /\ coll_sys # None
          /\ coll_sys.name =
               DocumentedName(SymbOf(cs_call.args.proj.chars), IntOf(DigitsOf(cs_call.args.proj.chars)),
                              SymbOf(cs_call.args.targ.chars), IntOf(DigitsOf(cs_call.args.targ.chars)),
                              cs_call.args.skyrme, cs_call.args.energy,
                              cs_call.args.imp_param, FALSE)
    /\ (cs_call.op = "get_name" /\ IsInstanceBool(cs_call.args.imqmd)) =>
          cs_call.result =
             [kind |-> "return",
              name |-> DocumentedName(coll_sys.proj_symb, coll_sys.proj_A,
                                      coll_sys.targ_symb, coll_sys.targ_A,
                                      coll_sys.skyrme, coll_sys.energy, coll_sys.imp_param,
                                      cs_call.args.imqmd.value = 1)]

\* C19: the constructor raises TypeError whenever proj or targ is not a
\* string, skyrme is neither None nor an integer, or energy or imp_param is
\* neither None nor a float, and get_name raises TypeError whenever imqmd is
\* not a boolean; no object and no name is produced.
C19_BadTypesRaiseTypeError ==
    /\ (/\ cs_call.op = "CollisionSystem"
        /\ \/ TypeOf(cs_call.args.proj) # "str"
           \/ TypeOf(cs_call.args.targ) # "str"
           \/ ~(cs_call.args.skyrme = None \/ IsInstanceInt(cs_call.args.skyrme))
           \/ ~(cs_call.args.energy = None \/ IsInstanceFloat(cs_call.args.energy))
           \/ ~(cs_call.args.imp_param = None \/ IsInstanceFloat(cs_call.args.imp_param)))
       => (cs_call.result.kind = "TypeError" /\ coll_sys = None)
    /\ (cs_call.op = "get_name" /\ ~IsInstanceBool(cs_call.args.imqmd))
       => cs_call.result.kind = "TypeError"

(***************************************************************************)
(* Claims about GaussianEmulator.                                          *)
(***************************************************************************)
IsMatrix(x) == TypeOf(x) = "ndarray" /\ x.ndim = 2

\* C20: fit and predict reject, by the wrapper's own validation and before
\* the regressor is called, every supplied matrix that is not a numpy array
\* (TypeError) or is not two-dimensional; a rejected fit leaves x_train,
\* y_train and the regressor unchanged.
C20_WrapperRejectsBadMatrices ==
    [][/\ (ge_call'.op = "fit"
             /\ ~(IsMatrix(ge_call'.args.x_train) /\ IsMatrix(ge_call'.args.y_train)))
          => /\ ge_call'.result.kind \in {"TypeError", "ValueError"}
             /\ (~IsNdArray(ge_call'.args.x_train) => ge_call'.result.kind = "TypeError")
             /\ emulator' = emulator
       /\ (ge_call'.op = "predict" /\ ~IsMatrix(ge_call'.args.x_test))
          => /\ ge_call'.result.kind \in {"TypeError", "ValueError"}
             /\ (~IsNdArray(ge_call'.args.x_test) => ge_call'.result.kind = "TypeError")
             /\ emulator'.regressor = emulator.regressor]_vars

(***************************************************************************)
(* Claims about the boundaries of auto_column_splitter.                    *)
(***************************************************************************)
\* Offset c is among the boundaries recorded after the leading 0.
Recorded(c) == \E k \in 2..Len(split_pos) : split_pos[k] = c

\* Character c of line i is not a space (offsets from 0).
NonSpaceAt(i, c) == content[i][c + 1] # " "

\* C21: an offset c with 1 <= c < L, L the length of the shortest line, is
\* recorded as a boundary if and only if no line has non-space characters at
\* both c - 1 and c and some line has a non-space character at c; the list
\* used for splitting starts with 0 and is strictly ascending, so it depends
\* only on the first L characters of each line.
C21_BoundaryRule ==
    (split_pc # "call" /\ content # <<>>) =>
        LET L == MinLineLength(content)
        IN /\ split_pos # <<>>
           /\ split_pos[1] = 0
           /\ \A k \in 1..(Len(split_pos) - 1) : split_pos[k] < split_pos[k + 1]
           /\ \A k \in 2..Len(split_pos) : split_pos[k] \in 1..(L - 1)
           /\ \A c \in 1..(L - 1) :
                Recorded(c) <=>
                    /\ \A i \in DOMAIN content : ~(NonSpaceAt(i, c - 1) /\ NonSpaceAt(i, c))
                    /\ \E i \in DOMAIN content : NonSpaceAt(i, c)

\* A batch of two lines was split at a recorded boundary, while a column of
\* spaces only and a column inside a token were not recorded.
C21_Witness ==
    /\ split_pc = "returned"
    /\ Len(content) = 2
    /\ \E c \in 1..(MinLineLength(content) - 1) : Recorded(c)
    /\ \E c \in 1..(MinLineLength(content) - 1) :
        ~Recorded(c) /\ \A i \in DOMAIN content : ~NonSpaceAt(i, c)
    /\ \E c \in 1..(MinLineLength(content) - 1) :
        ~Recorded(c) /\ \E i \in DOMAIN content : NonSpaceAt(i, c - 1) /\ NonSpaceAt(i, c)

\* C25: on a non-empty batch in which no boundary is detected,
\* auto_column_splitter returns one single-field row per line, the field
\* being the line without its newline, rather than failing.
C25_NoBoundaryGivesOneField ==
    (split_pc # "call" /\ content # <<>> /\ Len(split_pos) = 1) =>
        /\ split_pc = "returned"
        /\ splitted_content =
             [kind |-> "return",
              rows |-> [i \in DOMAIN content |-> <<WithoutNewline(content[i])>>]]

(***************************************************************************)
(* Claims about the rows read_in_data keeps and the local copy.            *)
(***************************************************************************)
\* Line i of the file is the third one whose first character is '0'.
IsThirdMarker(lines, i) ==
    /\ i \in DOMAIN lines
    /\ lines[i].first = "0"
    /\ Cardinality({j \in 1..(i - 1) : lines[j].first = "0"}) = 2

\* C22: every record of a table built by read_in_data comes from a line at
\* or after the third line whose first character is '0'; the lines before
\* it, and all lines of an input with fewer than three such lines,
\* contribute no record.
C22_RecordsFromThirdMarkerOn ==
    (iso_call.op = "read_in_data" /\ iso_call.result.kind = "return") =>
        LET lines == FileRead(iso_call).lines
        IN \E m \in DOMAIN lines :
            /\ IsThirdMarker(lines, m)
            /\ \A key \in DOMAIN df.rows :
                \E i \in m..Len(lines) :
                    lines[i].data /\ lines[i].A = key[1] /\ lines[i].Z = key[2]

\* read_in_data built a table from a file whose first lines read like data
\* rows: the rows before the third marker line are not in the table.
C22_Witness ==
    /\ iso_call.op = "read_in_data"
    /\ iso_call.result.kind = "return"
    /\ FileRead(iso_call) = File(Mass16DataInHeader)
    /\ <<1, 1>> \notin DOMAIN df.rows
    /\ <<2, 1>> \notin DOMAIN df.rows
    /\ <<8, 6>> \in DOMAIN df.rows

\* The number a numeric field writes, with its sign.
SignedValue(num) == IF num.neg THEN 0 - num.keV ELSE num.keV

\* C23: for every data row the mass_excess stored by read_in_data is the
\* signed number written in the source field: a field with a leading '-'
\* gives a negative mass_excess, and only the trailing '#' is dropped.
C23_MassExcessKeepsSign ==
    (iso_call.op = "read_in_data" /\ iso_call.result.kind = "return") =>
        LET rows == TableRows(FileRead(iso_call))
        IN \A i \in DOMAIN rows :
            /\ <<rows[i].A, rows[i].Z>> \in DOMAIN df.rows
            /\ df.rows[<<rows[i].A, rows[i].Z>>].mass_excess = SignedValue(rows[i].mass_excess)

\* C24: after any sequence of DataManager constructions a local file that
\* exists holds a completely downloaded table: a failed download leaves no
\* empty or partial file, and a failed forced re-download does not destroy
\* the valid copy that was there.
C24_LocalCopyAlwaysComplete ==
    [][iso_call'.op = "DataManager"
       => /\ local_file'.exists => local_file'.lines \in RemoteTables
          /\ (/\ iso_call'.result.kind = "ConnectionError"
              /\ local_file.exists
              /\ local_file.lines \in RemoteTables)
             => local_file' = local_file]_vars

====
